---------------------------- MODULE Spec2Model ----------------------------
(***************************************************************************)
(* Model of src/main.ts: the Cache originator and its mementos, the        *)
(* GameStateManager snapshot store, and the LocationGame event handlers    *)
(* (manual moves, geolocation callbacks, reset, collect and deposit).      *)
(*                                                                         *)
(* Geometry.  Latitudes and longitudes are integers counted in units of    *)
(* half a tile (5e-5 degrees), so that a tile is TILE_DEGREES = 2 units    *)
(* wide and the centre of tile i lies at the integer 2i + 1.  Arithmetic   *)
(* on positions is exact; the rounding of IEEE doubles is not modelled.    *)
(*                                                                         *)
(* Heap.  JavaScript arrays are objects: two fields may hold the same      *)
(* array.  coinArrays maps array references to the array's contents, and   *)
(* the coins field of a Cache or a CacheMemento holds a reference.         *)
(***************************************************************************)
EXTENDS Integers, Sequences, FiniteSets, TLC

VARIABLES
    coinArrays,             \* heap: array reference -> contents (a sequence of coin ids)
    playerLat,              \* LocationGame.playerLat
    playerLng,              \* LocationGame.playerLng
    playerCoins,            \* LocationGame.playerCoins
    activeCaches,           \* LocationGame.activeCaches: key -> Cache object
    cacheStates,            \* GameStateManager.cacheStates: key -> CacheMemento
    watchId,                \* LocationGame.watchId
    isAutoLocationEnabled,  \* LocationGame.isAutoLocationEnabled
    sensorDisabled,         \* the "disabled" attribute of the sensor button
    cooldownTimers,         \* pending setTimeout callbacks of disableButton
    hasGeolocation,         \* whether navigator.geolocation is present
    luckTable,              \* which table stands for the hash of luck.ts
    movementHistory,        \* LocationGame.movementHistory
    clock,                  \* the last reading of Date.now()
    lastOp,                 \* the event handled last, and what it returned
    lastMutation,           \* per key, the contents of the cache the last successful collect/deposit
                            \* left and handed to saveCache
    subject,                \* a Cache object driven directly through its methods
    taken,                  \* the mementos createMemento has returned for subject
    captured,               \* per memento of taken, its contents at the moment of capture
    calls,                  \* the method calls made on subject, with their results
    point,                  \* a position handed to latLongToGrid directly
    gridPos                 \* what latLongToGrid returned for point

gameVars == <<playerLat, playerLng, playerCoins, activeCaches, cacheStates,
              watchId, isAutoLocationEnabled, sensorDisabled, cooldownTimers,
              hasGeolocation, luckTable, movementHistory, clock, lastOp, lastMutation>>

gridVars == <<point, gridPos>>

unitVars == <<subject, taken, captured, calls, gridVars>>

vars == <<coinArrays, gameVars, unitVars>>

\* the JavaScript values null and undefined where a coin id is expected
NULL == [kind |-> "null"]

UNDEFINED == [kind |-> "undefined"]

\* the null of LocationGame.watchId (the ids watchPosition returns are positive)
NoWatch == 0

\* no Cache object
NoCache == [kind |-> "none"]

\* latLongToGrid has not been called
NoTile == [kind |-> "none"]

(***************************************************************************)
(* Constants of the program, in model units.                               *)
(***************************************************************************)
TILE_DEGREES == 2

NEIGHBORHOOD_SIZE == 8

CACHE_SPAWN_PROBABILITY == 10

OAKES_LAT == 739789

OAKES_LNG == -2441255

(***************************************************************************)
(* Bounds of the model.                                                    *)
(***************************************************************************)
MaxHistory == 3

MaxClock == 1

MaxCalls == 5

MaxMementos == 2

MaxCoordinate == 6

(***************************************************************************)
(* luck(key): the seeded hash of luck.ts, as hundredths (floor(100*luck)). *)
(* The key [i, j].toString() is the pair and the tag "", the key           *)
(* [i, j, "initialValue"].toString() the pair and the tag "initialValue".  *)
(* The hash is fixed to a sparse table: the tiles of LuckyTiles pass the   *)
(* spawn test (5 < 10) and no other tile does.  TileA lies 2 tiles north   *)
(* and 1 east of the classroom's tile and starts with 1 coin, TileB 9      *)
(* tiles north of it and starts empty.  A second table, "rich", differs    *)
(* from this "sparse" one in that TileA starts with 2 coins; luckTable     *)
(* tells which of the two a behaviour runs on, and never changes.          *)
(***************************************************************************)
TileA == <<369896, -1220627>>

TileB == <<369903, -1220628>>

LuckyTiles == {TileA, TileB}

luck(i, j, tag) ==
    IF tag = "initialValue"
    THEN CASE <<i, j>> = TileA -> IF luckTable = "rich" THEN 2 ELSE 1
           [] <<i, j>> = TileB -> 0
           [] OTHER -> 3
    ELSE IF <<i, j>> \in LuckyTiles THEN 5 ELSE 50 + ((i + j) % 50)

(***************************************************************************)
(* Heap helpers.                                                           *)
(***************************************************************************)
Min(S) == CHOOSE x \in S : \A y \in S : x <= y

NewRef(heap) == Min((1..(Cardinality(DOMAIN heap) + 1)) \ DOMAIN heap)

Alloc(heap, contents) == (NewRef(heap) :> contents) @@ heap

Store(heap, ref, contents) == [heap EXCEPT ![ref] = contents]

Range(f) == {f[x] : x \in DOMAIN f}

\* garbage collection: only the arrays some object still refers to are kept
Reachable(heap, objects) == [r \in {o.coins : o \in objects} |-> heap[r]]

(***************************************************************************)
(* class Cache                                                             *)
(***************************************************************************)
createCoinId(i, j, serial) == [kind |-> "serial", i |-> i, j |-> j, n |-> serial]

DepositedCoinId(i, j, now) == [kind |-> "deposited", i |-> i, j |-> j, n |-> now]

\* the initial coins with the highest serial first
InitialCoins_descending(i, j) ==
    [s \in 1..luck(i, j, "initialValue") |->
        createCoinId(i, j, luck(i, j, "initialValue") - s)]

\* Array.from({ length: coinCount }, (_, serial) => createCoinId(i, j, serial))
InitialCoins(i, j) == [s \in 1..luck(i, j, "initialValue") |-> createCoinId(i, j, s - 1)]

\* new Cache(i, j): the object and the heap holding its fresh coins array
NewCache(heap, i, j) ==
    [obj  |-> [i |-> i, j |-> j, coinCount |-> luck(i, j, "initialValue"),
               coins |-> NewRef(heap)],
     heap |-> Alloc(heap, InitialCoins(i, j))]

\* a createMemento that hands out the cache's own array
createMemento_shared(heap, c) ==
    [obj  |-> [i |-> c.i, j |-> c.j, coinCount |-> c.coinCount, coins |-> c.coins],
     heap |-> heap]

\* createMemento copies the coins array with a spread
createMemento(heap, c) ==
    [obj  |-> [i |-> c.i, j |-> c.j, coinCount |-> c.coinCount, coins |-> NewRef(heap)],
     heap |-> Alloc(heap, heap[c.coins])]

\* a restoreFromMemento that takes the coins and leaves the count
restoreFromMemento_stackOnly(c, m) == [c EXCEPT !.coins = m.coins]

\* restoreFromMemento assigns the memento's array itself
restoreFromMemento(c, m) == [c EXCEPT !.coinCount = m.coinCount, !.coins = m.coins]

\* Array.prototype.shift in the place of pop: removes the first element
Pop_shift(arr) ==
    IF Len(arr) = 0
    THEN [arr |-> arr, value |-> UNDEFINED]
    ELSE [arr |-> SubSeq(arr, 2, Len(arr)), value |-> arr[1]]

\* Array.prototype.pop: the removed element (undefined on an empty array)
Pop(arr) ==
    IF Len(arr) = 0
    THEN [arr |-> arr, value |-> UNDEFINED]
    ELSE [arr |-> SubSeq(arr, 1, Len(arr) - 1), value |-> arr[Len(arr)]]

\* a collect without the coinCount > 0 test
collect_unchecked(heap, c) ==
    [obj    |-> [c EXCEPT !.coinCount = c.coinCount - 1],
     heap   |-> Store(heap, c.coins, Pop(heap[c.coins]).arr),
     result |-> Pop(heap[c.coins]).value]

collect(heap, c) ==
    IF c.coinCount > 0
    THEN [obj    |-> [c EXCEPT !.coinCount = c.coinCount - 1],
          heap   |-> Store(heap, c.coins, Pop(heap[c.coins]).arr),
          result |-> Pop(heap[c.coins]).value]
    ELSE [obj |-> c, heap |-> heap, result |-> NULL]

\* a deposit that pushes the coin and forgets to count it
deposit_uncounted(heap, c, coinId) ==
    [obj  |-> c,
     heap |-> Store(heap, c.coins, Append(heap[c.coins], coinId))]

deposit(heap, c, coinId) ==
    [obj  |-> [c EXCEPT !.coinCount = c.coinCount + 1],
     heap |-> Store(heap, c.coins, Append(heap[c.coins], coinId))]

getCoinCount(c) == c.coinCount

\* what an observer of a Cache or CacheMemento sees: its count and its coins
Contents(heap, o) == [coinCount |-> o.coinCount, coins |-> heap[o.coins]]

FreshContents(i, j) == [coinCount |-> luck(i, j, "initialValue"), coins |-> InitialCoins(i, j)]


(***************************************************************************)
(* class GameStateManager.  The key `${i}:${j}` of its map and of          *)
(* activeCaches is the pair <<i, j>>, which key.split(":").map(Number)     *)
(* gives back.                                                             *)
(***************************************************************************)
CacheKey(i, j) == <<i, j>>

SplitKey(key) == [i |-> key[1], j |-> key[2]]

\* a saveCache that leaves an entry the key already has
saveCache_keepFirst(heap, states, c) ==
    [states |-> states @@ (CacheKey(c.i, c.j) :> createMemento(heap, c).obj),
     heap   |-> createMemento(heap, c).heap]

\* a saveCache that writes nothing
saveCache_skipped(heap, states, c) == [states |-> states, heap |-> heap]

\* saveCache: the store with a fresh memento of the cache under its key
saveCache(heap, states, c) ==
    LET memento == createMemento(heap, c) IN
    [states |-> (CacheKey(c.i, c.j) :> memento.obj) @@ states,
     heap   |-> memento.heap]

HasSaved(states, i, j) == CacheKey(i, j) \in DOMAIN states

restoreCache(states, i, j) == states[CacheKey(i, j)]

(***************************************************************************)
(* class LocationGame: geometry.  distanceTo is Leaflet's great-circle     *)
(* distance; over these few hundred metres it is the equirectangular       *)
(* distance, a degree of longitude at latitude 37 being 4/5 of a degree    *)
(* of latitude.  DistanceSq is 25 times the square of the distance in      *)
(* model units, and the limit of 0.005 * 111320 metres is 100 units.       *)
(***************************************************************************)
CACHE_VISIBILITY_RADIUS == 100

\* Math.trunc in the place of Math.floor: rounds towards zero
Trunc(a, b) == IF a >= 0 THEN a \div b ELSE -((-a) \div b)

latLongToGrid_truncating(lat, lng) ==
    [i |-> Trunc(lat, TILE_DEGREES), j |-> Trunc(lng, TILE_DEGREES)]

\* Math.floor(lat / TILE_DEGREES): \div rounds towards minus infinity
latLongToGrid(lat, lng) == [i |-> lat \div TILE_DEGREES, j |-> lng \div TILE_DEGREES]

calculateCacheBounds(i, j) ==
    [lat1 |-> i * TILE_DEGREES, lat2 |-> (i + 1) * TILE_DEGREES,
     long1 |-> j * TILE_DEGREES, long2 |-> (j + 1) * TILE_DEGREES]

getCenter(bounds) ==
    [lat |-> (bounds.lat1 + bounds.lat2) \div 2, lng |-> (bounds.long1 + bounds.long2) \div 2]

DistanceSq(lat1, lng1, lat2, lng2) ==
    25 * (lat1 - lat2) * (lat1 - lat2) + 16 * (lng1 - lng2) * (lng1 - lng2)

isCacheInRange(lat, lng, i, j) ==
    LET cacheCenter == getCenter(calculateCacheBounds(i, j)) IN
    DistanceSq(lat, lng, cacheCenter.lat, cacheCenter.lng)
        <= 25 * CACHE_VISIBILITY_RADIUS * CACHE_VISIBILITY_RADIUS

shouldSpawnCache(i, j) == luck(i, j, "") < CACHE_SPAWN_PROBABILITY

\* a spawnCache that never looks for a saved memento
spawnCache_fresh(active, heap, states, i, j) ==
    [active |-> (CacheKey(i, j) :> NewCache(heap, i, j).obj) @@ active,
     heap   |-> NewCache(heap, i, j).heap]

\* a spawnCache that builds the Cache of tile (j, i) and stores it under the key of (i, j)
spawnCache_transposed(active, heap, states, i, j) ==
    [active |-> (CacheKey(i, j) :> NewCache(heap, j, i).obj) @@ active,
     heap   |-> NewCache(heap, j, i).heap]

\* spawnCache: a new Cache, restored from its saved memento when there is one
spawnCache(active, heap, states, i, j) ==
    LET cache == NewCache(heap, i, j) IN
    [active |-> (CacheKey(i, j) :>
                    (IF HasSaved(states, i, j)
                     THEN restoreFromMemento(cache.obj, restoreCache(states, i, j))
                     ELSE cache.obj)) @@ active,
     heap   |-> cache.heap]

\* rows of a loop that stops one short of NEIGHBORHOOD_SIZE on either side
NeighborhoodRows_short(lat) ==
    {(lat + di * TILE_DEGREES) \div TILE_DEGREES :
        di \in (1 - NEIGHBORHOOD_SIZE)..(NEIGHBORHOOD_SIZE - 1)}

\* the tiles the admission loop visits around (lat, lng): gridPos.i depends on
\* the row offset alone and gridPos.j on the column offset alone
NeighborhoodRows(lat) ==
    {latLongToGrid(lat + di * TILE_DEGREES, 0).i :
        di \in -NEIGHBORHOOD_SIZE..NEIGHBORHOOD_SIZE}

NeighborhoodColumns(lng) ==
    {latLongToGrid(0, lng + dj * TILE_DEGREES).j :
        dj \in -NEIGHBORHOOD_SIZE..NEIGHBORHOOD_SIZE}

Neighborhood(lat, lng) == NeighborhoodRows(lat) \X NeighborhoodColumns(lng)

\* the loop visits the tiles by rows: i outermost, j innermost
FirstKey(keys) ==
    CHOOSE k \in keys : \A o \in keys : k[1] < o[1] \/ (k[1] = o[1] /\ k[2] <= o[2])

RECURSIVE SpawnEach(_, _, _, _)
SpawnEach(active, heap, states, keys) ==
    IF keys = {} THEN [active |-> active, heap |-> heap]
    ELSE LET key == FirstKey(keys)
             spawned == spawnCache(active, heap, states, key[1], key[2])
         IN SpawnEach(spawned.active, spawned.heap, states, keys \ {key})

\* an eviction pass that removes nothing
InRangeEntries_all(active, lat, lng) == active

\* the eviction pass: the entries whose tile is still in range
InRangeEntries(active, lat, lng) ==
    [key \in {k \in DOMAIN active : isCacheInRange(lat, lng, SplitKey(k).i, SplitKey(k).j)}
        |-> active[key]]

\* the admission pass: the tiles of the neighbourhood that are not active, pass
\* the spawn test and are in range.  Only tiles of LuckyTiles pass the spawn
\* test, so the others are left out before the tests are made.
Admitted(active, lat, lng) ==
    LET present == DOMAIN active
        visited == Neighborhood(lat, lng)
    IN {key \in {k \in LuckyTiles : k \in visited} :
           /\ ~(key \in present \/ ~shouldSpawnCache(key[1], key[2]))
           /\ isCacheInRange(lat, lng, key[1], key[2])}

\* an updateVisibleCaches that removes every cache and spawns the visible ones anew
updateVisibleCaches_respawn(active, heap, states, lat, lng) ==
    SpawnEach(<<>>, heap, states, Admitted(<<>>, lat, lng))

updateVisibleCaches(active, heap, states, lat, lng) ==
    LET kept == InRangeEntries(active, lat, lng) IN
    SpawnEach(kept, heap, states, Admitted(kept, lat, lng))

\* an addMovementPoint without the test for a repeated point
addMovementPoint_always(history, lat, lng) == Append(history, <<lat, lng>>)

\* addMovementPoint: the history, with the point appended unless it repeats the last one
addMovementPoint(history, lat, lng) ==
    IF history[Len(history)] = <<lat, lng>> THEN history
    ELSE Append(history, <<lat, lng>>)


\* updatePlayerPosition: the new position, history and active caches
updatePlayerPosition(active, heap, states, history, lat, lng) ==
    LET visible == updateVisibleCaches(active, heap, states, lat, lng) IN
    [lat     |-> lat,
     lng     |-> lng,
     history |-> addMovementPoint(history, lat, lng),
     active  |-> visible.active,
     heap    |-> visible.heap]

\* the arrays still referred to by a cache, a memento of the store or of taken
Live(heap, active, states) == Reachable(heap, Range(active) \cup Range(states))

(***************************************************************************)
(* The game: new LocationGame() and its event handlers.                    *)
(***************************************************************************)
\* the positions the geolocation sensor reports: the classroom and a point 60
\* tiles north of it, out of range of every cache near the classroom
SensorPositions ==
    {<<OAKES_LAT, OAKES_LNG>>,
     <<OAKES_LAT + 60 * TILE_DEGREES, OAKES_LNG>>}

\* manual moves are followed over the classroom's position and the positions
\* one tile north and one tile east of it
WalkingArea ==
    {<<OAKES_LAT + north * TILE_DEGREES, OAKES_LNG + east * TILE_DEGREES>> :
        north \in {0, 1}, east \in {0, 1}}

InWalkingArea(lat, lng) == <<lat, lng>> \in WalkingArea

\* the history may grow by the point (lat, lng)
HistoryHasRoom(lat, lng) ==
    \/ movementHistory[Len(movementHistory)] = <<lat, lng>>
    \/ Len(movementHistory) < MaxHistory

\* the fields of a LocationGame after its constructor
GameIdle ==
    /\ playerLat = OAKES_LAT
    /\ playerLng = OAKES_LNG
    /\ playerCoins = 0
    /\ activeCaches = <<>>
    /\ cacheStates = <<>>
    /\ watchId = NoWatch
    /\ isAutoLocationEnabled = FALSE
    /\ sensorDisabled = FALSE
    /\ cooldownTimers = 0
    /\ movementHistory = << <<OAKES_LAT, OAKES_LNG>> >>
    /\ clock = 0
    /\ lastOp = [op |-> "init"]
    /\ lastMutation = <<>>

Init ==
    /\ GameIdle
    /\ hasGeolocation \in BOOLEAN
    /\ luckTable = "sparse"
    /\ coinArrays = <<>>
    /\ subject = NoCache
    /\ taken = <<>>
    /\ captured = <<>>
    /\ calls = <<>>
    /\ point = <<0, 0>>
    /\ gridPos = NoTile

\* the record of a position update u: whether it repeats the update before it
\* at the same position, whether it directly follows a reset, the keys it
\* admitted and the keys it evicted
Observed(op, u) ==
    lastOp' = [op |-> op,
               repeated |-> /\ lastOp.op \in {"move", "sensor"}
                            /\ u.lat = playerLat /\ u.lng = playerLng,
               afterReset |-> lastOp.op = "reset",
               admitted |-> DOMAIN u.active \ DOMAIN activeCaches,
               evicted |-> DOMAIN activeCaches \ DOMAIN u.active]

\* a movePlayer that does not look at isAutoLocationEnabled
movePlayer_unguarded(latOffset, lngOffset) ==
    /\ InWalkingArea(playerLat + latOffset, playerLng + lngOffset)
    /\ HistoryHasRoom(playerLat + latOffset, playerLng + lngOffset)
    /\ LET u == updatePlayerPosition(activeCaches, coinArrays, cacheStates,
                                     movementHistory, playerLat + latOffset,
                                     playerLng + lngOffset) IN
          /\ playerLat' = u.lat
          /\ playerLng' = u.lng
          /\ movementHistory' = u.history
          /\ activeCaches' = u.active
          /\ coinArrays' = Live(u.heap, u.active, cacheStates)
          /\ Observed("move", u)
    /\ UNCHANGED <<playerCoins, cacheStates, watchId, isAutoLocationEnabled,
                   sensorDisabled, cooldownTimers, hasGeolocation, luckTable, clock,
                   lastMutation, unitVars>>

\* movePlayer(latOffset, lngOffset), bound to the four direction buttons
movePlayer(latOffset, lngOffset) ==
    IF isAutoLocationEnabled
    THEN /\ lastOp' = [op |-> "moveIgnored"]
         /\ UNCHANGED <<coinArrays, playerLat, playerLng, playerCoins, activeCaches,
                        cacheStates, watchId, isAutoLocationEnabled, sensorDisabled,
                        cooldownTimers, hasGeolocation, luckTable, movementHistory, clock,
                        lastMutation, unitVars>>
    ELSE /\ InWalkingArea(playerLat + latOffset, playerLng + lngOffset)
         /\ HistoryHasRoom(playerLat + latOffset, playerLng + lngOffset)
         /\ LET u == updatePlayerPosition(activeCaches, coinArrays, cacheStates,
                                          movementHistory, playerLat + latOffset,
                                          playerLng + lngOffset) IN
               /\ playerLat' = u.lat
               /\ playerLng' = u.lng
               /\ movementHistory' = u.history
               /\ activeCaches' = u.active
               /\ coinArrays' = Live(u.heap, u.active, cacheStates)
               /\ Observed("move", u)
         /\ UNCHANGED <<playerCoins, cacheStates, watchId, isAutoLocationEnabled,
                        sensorDisabled, cooldownTimers, hasGeolocation, luckTable, clock,
                        lastMutation, unitVars>>

North == movePlayer(TILE_DEGREES, 0)

South == movePlayer(-TILE_DEGREES, 0)

West == movePlayer(0, -TILE_DEGREES)

East == movePlayer(0, TILE_DEGREES)

\* disableButton: the button is disabled and a 2-second timer is started
disableButton ==
    /\ sensorDisabled' = TRUE
    /\ cooldownTimers' = cooldownTimers + 1

\* the timer of disableButton fires
CooldownExpires ==
    /\ cooldownTimers > 0
    /\ cooldownTimers' = cooldownTimers - 1
    /\ sensorDisabled' = FALSE
    /\ lastOp' = [op |-> "tracking"]
    /\ UNCHANGED <<coinArrays, playerLat, playerLng, playerCoins, activeCaches,
                   cacheStates, watchId, isAutoLocationEnabled, hasGeolocation, luckTable,
                   movementHistory, clock, lastMutation, unitVars>>

\* click on the sensor button; started tells whether watchPosition returns or throws
SensorClick(started) ==
    /\ lastOp' = [op |-> "tracking"]
    /\ IF sensorDisabled
       THEN UNCHANGED <<watchId, isAutoLocationEnabled, sensorDisabled, cooldownTimers>>
       ELSE IF ~hasGeolocation
       THEN disableButton /\ UNCHANGED <<watchId, isAutoLocationEnabled>>
       ELSE IF isAutoLocationEnabled
       THEN /\ watchId' = NoWatch
            /\ isAutoLocationEnabled' = FALSE
            /\ disableButton
       ELSE IF started
       THEN /\ watchId' = 1
            /\ isAutoLocationEnabled' = TRUE
            /\ UNCHANGED <<sensorDisabled, cooldownTimers>>
       ELSE disableButton /\ UNCHANGED <<watchId, isAutoLocationEnabled>>
    /\ UNCHANGED <<coinArrays, playerLat, playerLng, playerCoins, activeCaches,
                   cacheStates, hasGeolocation, luckTable, movementHistory, clock,
                   lastMutation, unitVars>>

\* the success callback of watchPosition
SensorPosition(lat, lng) ==
    /\ watchId # NoWatch
    /\ HistoryHasRoom(lat, lng)
    /\ LET u == updatePlayerPosition(activeCaches, coinArrays, cacheStates,
                                     movementHistory, lat, lng) IN
          /\ playerLat' = u.lat
          /\ playerLng' = u.lng
          /\ movementHistory' = u.history
          /\ activeCaches' = u.active
          /\ coinArrays' = Live(u.heap, u.active, cacheStates)
          /\ Observed("sensor", u)
    /\ UNCHANGED <<playerCoins, cacheStates, watchId, isAutoLocationEnabled,
                   sensorDisabled, cooldownTimers, hasGeolocation, luckTable, clock,
                   lastMutation, unitVars>>

\* an error callback that leaves the watch in place
SensorError_keepsWatch ==
    /\ watchId # NoWatch
    /\ isAutoLocationEnabled' = FALSE
    /\ disableButton
    /\ lastOp' = [op |-> "tracking"]
    /\ UNCHANGED <<coinArrays, playerLat, playerLng, playerCoins, activeCaches,
                   cacheStates, watchId, hasGeolocation, luckTable, movementHistory, clock,
                   lastMutation, unitVars>>

\* the error callback of watchPosition
SensorError ==
    /\ watchId # NoWatch
    /\ isAutoLocationEnabled' = FALSE
    /\ disableButton
    /\ watchId' = NoWatch
    /\ lastOp' = [op |-> "tracking"]
    /\ UNCHANGED <<coinArrays, playerLat, playerLng, playerCoins, activeCaches,
                   cacheStates, hasGeolocation, luckTable, movementHistory, clock,
                   lastMutation, unitVars>>

\* a reset that also empties the snapshot store
Reset_forgetful ==
    /\ watchId' = NoWatch
    /\ isAutoLocationEnabled' = FALSE
    /\ playerLat' = OAKES_LAT
    /\ playerLng' = OAKES_LNG
    /\ activeCaches' = <<>>
    /\ cacheStates' = <<>>
    /\ coinArrays' = <<>>
    /\ playerCoins' = 0
    /\ movementHistory' = << <<OAKES_LAT, OAKES_LNG>> >>
    /\ lastOp' = [op |-> "reset"]
    /\ UNCHANGED <<sensorDisabled, cooldownTimers, hasGeolocation, luckTable, clock,
                   lastMutation, unitVars>>

\* click on the reset button
Reset ==
    /\ IF isAutoLocationEnabled /\ watchId # NoWatch
       THEN watchId' = NoWatch /\ isAutoLocationEnabled' = FALSE
       ELSE UNCHANGED <<watchId, isAutoLocationEnabled>>
    /\ LET u == updatePlayerPosition(activeCaches, coinArrays, cacheStates,
                                     movementHistory, OAKES_LAT, OAKES_LNG) IN
          /\ playerLat' = u.lat
          /\ playerLng' = u.lng
          /\ activeCaches' = <<>>
          /\ coinArrays' = Live(u.heap, <<>>, cacheStates)
    /\ playerCoins' = 0
    /\ movementHistory' = << <<OAKES_LAT, OAKES_LNG>> >>
    /\ lastOp' = [op |-> "reset"]
    /\ UNCHANGED <<cacheStates, sensorDisabled, cooldownTimers, hasGeolocation, luckTable,
                   clock, lastMutation, unitVars>>

\* click on the collect button of the popup of the active cache under key
handleCollectClick(key) ==
    /\ key \in DOMAIN activeCaches
    /\ LET r == collect(coinArrays, activeCaches[key])
           saved == saveCache(r.heap, cacheStates, r.obj)
       IN
          /\ activeCaches' = [activeCaches EXCEPT ![key] = r.obj]
          /\ lastOp' = [op |-> "collect", key |-> key, result |-> r.result]
          /\ IF r.result \notin {NULL, UNDEFINED}
             THEN /\ playerCoins' = playerCoins + 1
                  /\ cacheStates' = saved.states
                  /\ coinArrays' = Live(saved.heap, activeCaches', saved.states)
                  /\ lastMutation' = (key :> Contents(r.heap, r.obj)) @@ lastMutation
             ELSE /\ coinArrays' = Live(r.heap, activeCaches', cacheStates)
                  /\ UNCHANGED <<playerCoins, cacheStates, lastMutation>>
    /\ UNCHANGED <<playerLat, playerLng, watchId, isAutoLocationEnabled, sensorDisabled,
                   cooldownTimers, hasGeolocation, luckTable, movementHistory, clock, unitVars>>

\* a deposit click that does not look at the balance
handleDepositClick_unguarded(key, now) ==
    /\ key \in DOMAIN activeCaches
    /\ now >= clock
    /\ LET c == activeCaches[key]
           r == deposit(coinArrays, c, DepositedCoinId(c.i, c.j, now))
           saved == saveCache(r.heap, cacheStates, r.obj)
       IN
          /\ activeCaches' = [activeCaches EXCEPT ![key] = r.obj]
          /\ playerCoins' = playerCoins - 1
          /\ cacheStates' = saved.states
          /\ coinArrays' = Live(saved.heap, activeCaches', saved.states)
          /\ lastMutation' = (key :> Contents(r.heap, r.obj)) @@ lastMutation
          /\ clock' = now
          /\ lastOp' = [op |-> "deposit", done |-> TRUE]
    /\ UNCHANGED <<playerLat, playerLng, watchId, isAutoLocationEnabled, sensorDisabled,
                   cooldownTimers, hasGeolocation, luckTable, movementHistory, unitVars>>

\* click on the deposit button of the popup of the active cache under key;
\* now is what Date.now() returns
handleDepositClick(key, now) ==
    /\ key \in DOMAIN activeCaches
    /\ now >= clock
    /\ IF playerCoins > 0
       THEN LET c == activeCaches[key]
                r == deposit(coinArrays, c, DepositedCoinId(c.i, c.j, now))
                saved == saveCache(r.heap, cacheStates, r.obj)
            IN
               /\ activeCaches' = [activeCaches EXCEPT ![key] = r.obj]
               /\ playerCoins' = playerCoins - 1
               /\ cacheStates' = saved.states
               /\ coinArrays' = Live(saved.heap, activeCaches', saved.states)
               /\ lastMutation' = (key :> Contents(r.heap, r.obj)) @@ lastMutation
               /\ clock' = now
               /\ lastOp' = [op |-> "deposit", done |-> TRUE]
       ELSE /\ lastOp' = [op |-> "deposit", done |-> FALSE]
            /\ UNCHANGED <<coinArrays, activeCaches, playerCoins, cacheStates,
                           lastMutation, clock>>
    /\ UNCHANGED <<playerLat, playerLng, watchId, isAutoLocationEnabled, sensorDisabled,
                   cooldownTimers, hasGeolocation, luckTable, movementHistory, unitVars>>

Next ==
    \/ North
    \/ South
    \/ West
    \/ East
    \/ \E started \in BOOLEAN : SensorClick(started)
    \/ \E p \in SensorPositions : SensorPosition(p[1], p[2])
    \/ SensorError
    \/ CooldownExpires
    \/ Reset
    \/ \E key \in DOMAIN activeCaches : handleCollectClick(key)
    \/ \E key \in DOMAIN activeCaches, now \in 0..MaxClock : handleDepositClick(key, now)

Spec == Init /\ [][Next]_vars


(***************************************************************************)
(* The Cache class on its own: one Cache object, subject, receives any     *)
(* sequence of collect, deposit, createMemento and restoreFromMemento      *)
(* calls; taken holds the mementos it has produced.                        *)
(***************************************************************************)
UnitTiles == {TileA, TileB, <<-1, 3>>}

UnitCoinIds == {DepositedCoinId(-1, 3, 7), createCoinId(0, 0, 0)}

UnitInit ==
    /\ GameIdle
    /\ hasGeolocation = TRUE
    /\ luckTable = "sparse"
    /\ \E t \in UnitTiles :
          /\ subject = NewCache(<<>>, t[1], t[2]).obj
          /\ coinArrays = NewCache(<<>>, t[1], t[2]).heap
    /\ taken = <<>>
    /\ captured = <<>>
    /\ calls = <<>>
    /\ point = <<0, 0>>
    /\ gridPos = NoTile

UnitLive(heap, subj, mementos) == Reachable(heap, {subj} \cup Range(mementos))

CallCollect ==
    /\ Len(calls) < MaxCalls
    /\ LET r == collect(coinArrays, subject) IN
          /\ subject' = r.obj
          /\ coinArrays' = UnitLive(r.heap, r.obj, taken)
          /\ calls' = Append(calls, [op |-> "collect", result |-> r.result])
    /\ UNCHANGED <<taken, captured, gameVars, gridVars>>

CallDeposit(coinId) ==
    /\ Len(calls) < MaxCalls
    /\ LET r == deposit(coinArrays, subject, coinId) IN
          /\ subject' = r.obj
          /\ coinArrays' = UnitLive(r.heap, r.obj, taken)
    /\ calls' = Append(calls, [op |-> "deposit", coinId |-> coinId])
    /\ UNCHANGED <<taken, captured, gameVars, gridVars>>

CallCreateMemento ==
    /\ Len(calls) < MaxCalls
    /\ Len(taken) < MaxMementos
    /\ LET r == createMemento(coinArrays, subject) IN
          /\ taken' = Append(taken, r.obj)
          /\ captured' = Append(captured, Contents(r.heap, r.obj))
          /\ coinArrays' = UnitLive(r.heap, subject, Append(taken, r.obj))
    /\ calls' = Append(calls, [op |-> "createMemento", memento |-> Len(taken) + 1])
    /\ UNCHANGED <<subject, gameVars, gridVars>>

CallRestore(k) ==
    /\ Len(calls) < MaxCalls
    /\ k \in 1..Len(taken)
    /\ subject' = restoreFromMemento(subject, taken[k])
    /\ coinArrays' = UnitLive(coinArrays, restoreFromMemento(subject, taken[k]), taken)
    /\ calls' = Append(calls, [op |-> "restoreFromMemento", memento |-> k])
    /\ UNCHANGED <<taken, captured, gameVars, gridVars>>

UnitNext ==
    \/ CallCollect
    \/ \E coinId \in UnitCoinIds : CallDeposit(coinId)
    \/ CallCreateMemento
    \/ \E k \in 1..MaxMementos : CallRestore(k)

CacheSpec == UnitInit /\ [][UnitNext]_vars

(***************************************************************************)
(* The direction buttons and the popups on their own, on the table where   *)
(* TileA starts with 2 coins: the player walks, collects and deposits.     *)
(***************************************************************************)
DepositInit ==
    /\ GameIdle
    /\ hasGeolocation \in BOOLEAN
    /\ luckTable = "rich"
    /\ coinArrays = <<>>
    /\ subject = NoCache
    /\ taken = <<>>
    /\ captured = <<>>
    /\ calls = <<>>
    /\ point = <<0, 0>>
    /\ gridPos = NoTile

DepositNext ==
    \/ North
    \/ South
    \/ West
    \/ East
    \/ \E key \in DOMAIN activeCaches : handleCollectClick(key)
    \/ \E key \in DOMAIN activeCaches, now \in 0..MaxClock : handleDepositClick(key, now)

DepositSpec == DepositInit /\ [][DepositNext]_vars

(***************************************************************************)
(* latLongToGrid on its own: it is called once on a position drawn from    *)
(* the square of side 2 * MaxCoordinate + 1 around the origin, which holds *)
(* negative and positive coordinates, tile borders (even) and tile         *)
(* centres (odd).                                                          *)
(***************************************************************************)
Coordinates == -MaxCoordinate..MaxCoordinate

GridInit ==
    /\ GameIdle
    /\ hasGeolocation = TRUE
    /\ luckTable = "sparse"
    /\ coinArrays = <<>>
    /\ subject = NoCache
    /\ taken = <<>>
    /\ captured = <<>>
    /\ calls = <<>>
    /\ point \in Coordinates \X Coordinates
    /\ gridPos = NoTile

CallLatLongToGrid ==
    /\ gridPos = NoTile
    /\ gridPos' = latLongToGrid(point[1], point[2])
    /\ UNCHANGED <<coinArrays, gameVars, subject, taken, captured, calls, point>>

GridNext == CallLatLongToGrid

GridSpec == GridInit /\ [][GridNext]_vars


(***************************************************************************)
(* Claims about the Cache class, checked under CacheSpec.                  *)
(***************************************************************************)
OnlyCollectDeposit(cs) == \A n \in 1..Len(cs) : cs[n].op \in {"collect", "deposit"}

Deposits(cs) == Cardinality({n \in 1..Len(cs) : cs[n].op = "deposit"})

ReturnedCollects(cs) ==
    Cardinality({n \in 1..Len(cs) : cs[n].op = "collect" /\ cs[n].result # NULL})

\* C2: for every Cache entity, coinCount equals the length of the coins stack
\* and coinCount >= 0, under any sequence of collect, deposit, createMemento
\* and restoreFromMemento.
C2_CountIsStackLength ==
    /\ subject.coinCount = Len(coinArrays[subject.coins])
    /\ subject.coinCount >= 0
    /\ \A key \in DOMAIN activeCaches :
          /\ activeCaches[key].coinCount = Len(coinArrays[activeCaches[key].coins])
          /\ activeCaches[key].coinCount >= 0

\* C3: after any sequence of collect and deposit calls on one Cache,
\* getCoinCount() is the initial count plus the deposits minus the collects
\* that returned a token, and it is never negative.
C3_Conservation ==
    OnlyCollectDeposit(calls) =>
        /\ getCoinCount(subject) =
              luck(subject.i, subject.j, "initialValue") + Deposits(calls)
                  - ReturnedCollects(calls)
        /\ getCoinCount(subject) >= 0

C3_Witness ==
    /\ OnlyCollectDeposit(calls)
    /\ Deposits(calls) >= 1
    /\ ReturnedCollects(calls) >= 2
    /\ \E n \in 1..Len(calls) : calls[n].op = "collect" /\ calls[n].result = NULL

\* C4: a memento, once produced by createMemento, is never altered by any
\* later operation on a Cache: its coinCount and coins stay as captured.
C4_MementoImmutable ==
    \A k \in 1..Len(taken) : Contents(coinArrays, taken[k]) = captured[k]

\* the call that produced memento k
CreatedAt(k) ==
    CHOOSE n \in 1..Len(calls) : calls[n].op = "createMemento" /\ calls[n].memento = k

\* the last call restores memento k, and since k was taken the cache has only
\* been mutated by collects and deposits
RoundTrip(k) ==
    /\ Len(calls) > 0
    /\ calls[Len(calls)].op = "restoreFromMemento"
    /\ calls[Len(calls)].memento = k
    /\ \A n \in (CreatedAt(k) + 1)..(Len(calls) - 1) : calls[n].op \in {"collect", "deposit"}

\* C5: snapshot round trip: m = createMemento() in state S, then any collects
\* and deposits, then restoreFromMemento(m) leaves the count and the stack of S.
C5_RoundTrip ==
    \A k \in 1..Len(taken) : RoundTrip(k) => Contents(coinArrays, subject) = captured[k]

C5_Witness ==
    \E k \in 1..Len(taken) :
        /\ RoundTrip(k)
        /\ Len(calls) >= CreatedAt(k) + 3
        /\ \E n \in (CreatedAt(k) + 1)..(Len(calls) - 1) : calls[n].op = "deposit"
        /\ \E n \in (CreatedAt(k) + 1)..(Len(calls) - 1) :
              calls[n].op = "collect" /\ calls[n].result # NULL

\* the coin ids added to the cache by the construction and the first n calls, in order
RECURSIVE AddedBy(_, _)
AddedBy(c, n) ==
    IF n = 0 THEN InitialCoins(c.i, c.j)
    ELSE IF calls[n].op = "deposit" THEN Append(AddedBy(c, n - 1), calls[n].coinId)
    ELSE AddedBy(c, n - 1)

Max(S) == CHOOSE x \in S : \A y \in S : x >= y

\* the positions in AddedBy that the collects among the first n calls have removed,
\* each collect removing the latest addition that is still there
RECURSIVE RemovedBy(_, _)
RemovedBy(c, n) ==
    IF n = 0 THEN {}
    ELSE IF calls[n].op = "collect"
              /\ (1..Len(AddedBy(c, n - 1))) \ RemovedBy(c, n - 1) # {}
    THEN RemovedBy(c, n - 1)
             \cup {Max((1..Len(AddedBy(c, n - 1))) \ RemovedBy(c, n - 1))}
    ELSE RemovedBy(c, n - 1)

MostRecentBefore(c, n) ==
    IF (1..Len(AddedBy(c, n - 1))) \ RemovedBy(c, n - 1) = {} THEN NULL
    ELSE AddedBy(c, n - 1)[Max((1..Len(AddedBy(c, n - 1))) \ RemovedBy(c, n - 1))]

\* C7: collect is last-in-first-out: a collect returns the coin most recently
\* added and not yet removed; on a fresh cache of N coins the first N collects
\* return the serials N-1, N-2, ..., 0.
C7_Lifo ==
    OnlyCollectDeposit(calls) =>
        /\ \A n \in 1..Len(calls) :
              calls[n].op = "collect" => calls[n].result = MostRecentBefore(subject, n)
        /\ \A n \in 1..Len(calls) :
              (/\ n <= luck(subject.i, subject.j, "initialValue")
               /\ \A m \in 1..n : calls[m].op = "collect")
              => calls[n].result =
                     createCoinId(subject.i, subject.j,
                                  luck(subject.i, subject.j, "initialValue") - n)

C7_Witness ==
    /\ OnlyCollectDeposit(calls)
    /\ Len(calls) >= 4
    /\ calls[1].op = "collect" /\ calls[1].result # NULL
    /\ \E n \in 2..(Len(calls) - 2) :
          /\ calls[n].op = "deposit"
          /\ calls[n + 1].op = "collect"
          /\ calls[n + 2].op = "collect" /\ calls[n + 2].result # NULL


(***************************************************************************)
(* Claims about the game, checked under Spec.                              *)
(***************************************************************************)
\* C1: a cache that is admitted by updateVisibleCaches after its tile had left
\* the active set holds the count and the stack left by the last successful
\* collect/deposit on that tile, and its fresh state if it was never mutated.
C1_ReadmittedAsLeft ==
    lastOp.op \in {"move", "sensor"} =>
        \A key \in lastOp.admitted :
            Contents(coinArrays, activeCaches[key]) =
                IF key \in DOMAIN lastMutation THEN lastMutation[key]
                ELSE FreshContents(key[1], key[2])

C1_Witness ==
    /\ lastOp.op \in {"move", "sensor"}
    /\ \E key \in lastOp.admitted :
          /\ key \in DOMAIN lastMutation
          /\ Contents(coinArrays, activeCaches[key]) # FreshContents(key[1], key[2])

\* C6: a collect click on a cache whose count is 0 returns null and changes
\* nothing: the count stays 0 and the stack empty, the balance and the
\* snapshot store are unchanged.
C6_EmptyCollect ==
    [][\A key \in DOMAIN activeCaches :
          (/\ lastOp'.op = "collect"
           /\ lastOp'.key = key
           /\ activeCaches[key].coinCount = 0)
          => /\ lastOp'.result = NULL
             /\ activeCaches' = activeCaches
             /\ coinArrays' = coinArrays
             /\ activeCaches'[key].coinCount = 0
             /\ coinArrays'[activeCaches'[key].coins] = <<>>
             /\ playerCoins' = playerCoins
             /\ cacheStates' = cacheStates]_vars

C6_Witness ==
    /\ lastOp.op = "collect"
    /\ lastOp.result = NULL
    /\ activeCaches[lastOp.key].coinCount = 0
    /\ playerCoins > 0
    /\ lastOp.key \in DOMAIN cacheStates

\* C8: after every position update and after every reset, a tile is in the
\* active set if and only if it passes the spawn test and its centre is within
\* the visibility radius of the player.  (Tiles outside LuckyTiles fail the
\* spawn test and are never active.)
C8_ActiveIffVisible ==
    lastOp.op \in {"move", "sensor", "reset"} =>
        \A key \in LuckyTiles \cup DOMAIN activeCaches :
            key \in DOMAIN activeCaches
                <=> /\ shouldSpawnCache(key[1], key[2])
                    /\ isCacheInRange(playerLat, playerLng, key[1], key[2])

\* C9: the active set after a position update is a function of the position
\* alone.  The history "sensor on, sensor reports the classroom" ends with an
\* update at the classroom on an empty active set, so every other history
\* ending with an update at the classroom must give that same set.
C9_SetDependsOnPositionOnly ==
    (/\ lastOp.op \in {"move", "sensor"}
     /\ playerLat = OAKES_LAT
     /\ playerLng = OAKES_LNG)
    => DOMAIN activeCaches =
           DOMAIN updateVisibleCaches(<<>>, <<>>, <<>>, OAKES_LAT, OAKES_LNG).active

C11_EvictionSnapshots ==
    [][lastOp'.op \in {"move", "sensor"} =>
          \A key \in lastOp'.evicted :
              /\ HasSaved(cacheStates', key[1], key[2])
              /\ Contents(coinArrays', restoreCache(cacheStates', key[1], key[2]))
                     = Contents(coinArrays, activeCaches[key])]_vars

\* C12: restoreCache(i, j) returns the memento of the most recent saveCache
\* for the tile, with the contents saved then, and nothing for a tile that was
\* never saved; no event ever removes an entry of the store.
C12_StoreSemantics ==
    /\ [](\A key \in LuckyTiles \cup DOMAIN cacheStates \cup DOMAIN lastMutation :
            IF key \in DOMAIN lastMutation
            THEN /\ HasSaved(cacheStates, key[1], key[2])
                 /\ Contents(coinArrays, restoreCache(cacheStates, key[1], key[2]))
                        = lastMutation[key]
            ELSE ~HasSaved(cacheStates, key[1], key[2]))
    /\ [][DOMAIN cacheStates \subseteq DOMAIN cacheStates']_vars

\* a tile saved twice (its stack holds a deposited coin) is still in the store
\* after a reset, and another tile has never been saved
C12_Witness ==
    /\ lastOp.op = "reset"
    /\ \E key \in DOMAIN cacheStates :
          \E n \in 1..Len(coinArrays[cacheStates[key].coins]) :
              coinArrays[cacheStates[key].coins][n].kind = "deposited"
    /\ \E key \in LuckyTiles : ~HasSaved(cacheStates, key[1], key[2])

\* the stack "i:j#0" .. "i:j#(count-1)", lowest serial first
SerialStack(i, j, count) ==
    [s \in 1..count |-> [kind |-> "serial", i |-> i, j |-> j, n |-> s - 1]]

\* C13: a freshly constructed, never-saved cache at tile (i, j) has the count
\* floor(100 * luck("i,j,initialValue")), which lies in 0..99, and the stack
\* "i:j#0" .. "i:j#(count-1)" in increasing serial order, whatever the clock,
\* the balance and the moves, collects, deposits and resets before.
C13_FreshCache ==
    /\ \A t \in UnitTiles :
          LET c == NewCache(coinArrays, t[1], t[2])
              count == luck(t[1], t[2], "initialValue")
          IN /\ count \in 0..99
             /\ c.obj.i = t[1] /\ c.obj.j = t[2]
             /\ Contents(c.heap, c.obj) =
                    [coinCount |-> count, coins |-> SerialStack(t[1], t[2], count)]
    /\ lastOp.op \in {"move", "sensor"} =>
          \A key \in lastOp.admitted :
              ~HasSaved(cacheStates, key[1], key[2]) =>
                  Contents(coinArrays, activeCaches[key]) =
                      [coinCount |-> luck(key[1], key[2], "initialValue"),
                       coins |-> SerialStack(key[1], key[2],
                                             luck(key[1], key[2], "initialValue"))]

\* a never-saved tile is admitted after collects and a deposit elsewhere, the
\* clock advanced and the balance positive
C13_Witness ==
    /\ lastOp.op \in {"move", "sensor"}
    /\ \E key \in lastOp.admitted : ~HasSaved(cacheStates, key[1], key[2])
    /\ playerCoins > 0
    /\ clock > 0
    /\ cacheStates # <<>>

\* C15: the balance is a non-negative integer in every state; a deposit click
\* with balance 0 changes neither a cache, nor the balance, nor the store; a
\* successful deposit lowers the balance by 1 and a successful collect raises
\* it by 1.
C15_Balance ==
    /\ [](playerCoins \in Nat)
    /\ [][/\ (lastOp'.op = "deposit" /\ playerCoins = 0) =>
                /\ ~lastOp'.done
                /\ activeCaches' = activeCaches
                /\ coinArrays' = coinArrays
                /\ playerCoins' = playerCoins
                /\ cacheStates' = cacheStates
          /\ (lastOp'.op = "deposit" /\ playerCoins > 0) =>
                /\ lastOp'.done
                /\ playerCoins' = playerCoins - 1
          /\ (lastOp'.op = "collect" /\ lastOp'.result # NULL) =>
                playerCoins' = playerCoins + 1
          /\ (lastOp'.op = "collect" /\ lastOp'.result = NULL) =>
                playerCoins' = playerCoins]_vars

\* a deposit click was refused for want of coins, after a collect and a
\* deposit had been made
C15_Witness ==
    /\ lastOp.op = "deposit"
    /\ ~lastOp.done
    /\ playerCoins = 0
    /\ clock > 0
    /\ \E key \in DOMAIN activeCaches : key \in DOMAIN cacheStates

\* C16: within one position update the eviction pass is over before the
\* admission pass starts, and no tile the eviction pass removes (a tile out of
\* range of the new position) is created again by the admission pass; the
\* active set never holds two Cache entities of one tile.
C16_EvictionBeforeAdmission ==
    /\ [](\A k1 \in DOMAIN activeCaches, k2 \in DOMAIN activeCaches :
            (/\ activeCaches[k1].i = activeCaches[k2].i
             /\ activeCaches[k1].j = activeCaches[k2].j) => k1 = k2)
    /\ [][lastOp'.op \in {"move", "sensor"} =>
             \A key \in DOMAIN activeCaches :
                 ~isCacheInRange(playerLat', playerLng', key[1], key[2]) =>
                     /\ key \in lastOp'.evicted
                     /\ key \notin DOMAIN activeCaches']_vars

\* an update has evicted both caches
C16_Witness ==
    /\ lastOp.op = "sensor"
    /\ lastOp.evicted = LuckyTiles
    /\ activeCaches = <<>>

\* the tile (i, j) lies in the 17x17 index window around the tile of (lat, lng)
InWindow(lat, lng, i, j) ==
    LET own == latLongToGrid(lat, lng) IN
    /\ i - own.i \in -8..8
    /\ j - own.j \in -8..8

C18_ActiveLegitimate ==
    \A key \in DOMAIN activeCaches :
        /\ shouldSpawnCache(SplitKey(key).i, SplitKey(key).j)
        /\ isCacheInRange(playerLat, playerLng, SplitKey(key).i, SplitKey(key).j)
        /\ activeCaches[key].i = SplitKey(key).i
        /\ activeCaches[key].j = SplitKey(key).j

\* both caches are active away from the classroom, one of them mutated
C18_Witness ==
    /\ DOMAIN activeCaches = LuckyTiles
    /\ <<playerLat, playerLng>> # <<OAKES_LAT, OAKES_LNG>>
    /\ \E key \in DOMAIN activeCaches : key \in DOMAIN cacheStates

\* C19: after the reset event the player is at the classroom, the balance is
\* 0, the active set is empty, the movement history is the classroom alone and
\* tracking is off; the reset leaves the snapshot store as it was, so that a
\* tile mutated before the reset is admitted afterwards with its mutated count
\* and stack.
C19_Reset ==
    /\ [](lastOp.op = "reset" =>
            /\ playerLat = OAKES_LAT
            /\ playerLng = OAKES_LNG
            /\ playerCoins = 0
            /\ activeCaches = <<>>
            /\ movementHistory = << <<OAKES_LAT, OAKES_LNG>> >>
            /\ ~isAutoLocationEnabled
            /\ watchId = NoWatch)
    /\ [][lastOp'.op = "reset" =>
             /\ cacheStates' = cacheStates
             /\ \A key \in DOMAIN cacheStates :
                   Contents(coinArrays', cacheStates'[key])
                       = Contents(coinArrays, cacheStates[key])]_vars
    /\ []((lastOp.op \in {"move", "sensor"} /\ lastOp.afterReset) =>
            \A key \in lastOp.admitted :
                key \in DOMAIN lastMutation =>
                    Contents(coinArrays, activeCaches[key]) = lastMutation[key])

\* the update that directly follows a reset admits a tile whose count was
\* changed before the reset
C19_Witness ==
    /\ lastOp.op \in {"move", "sensor"}
    /\ lastOp.afterReset
    /\ \E key \in lastOp.admitted :
          /\ key \in DOMAIN lastMutation
          /\ activeCaches[key].coinCount # luck(key[1], key[2], "initialValue")

\* C20: while automatic tracking is enabled a click on a direction button is a
\* no-op: position, movement history, active set and snapshot store are
\* unchanged.  A click made while tracking is off moves the player by one
\* tile, and tracking is off after it was disabled by the sensor button, by a
\* geolocation error or by reset.
C20_ManualMoveWhileTracking ==
    /\ [][lastOp'.op \in {"move", "moveIgnored"} =>
             IF isAutoLocationEnabled
             THEN /\ lastOp'.op = "moveIgnored"
                  /\ playerLat' = playerLat
                  /\ playerLng' = playerLng
                  /\ movementHistory' = movementHistory
                  /\ activeCaches' = activeCaches
                  /\ coinArrays' = coinArrays
                  /\ cacheStates' = cacheStates
             ELSE /\ lastOp'.op = "move"
                  /\ \/ /\ playerLat' - playerLat \in {TILE_DEGREES, -TILE_DEGREES}
                        /\ playerLng' = playerLng
                     \/ /\ playerLng' - playerLng \in {TILE_DEGREES, -TILE_DEGREES}
                        /\ playerLat' = playerLat
                  /\ movementHistory'[Len(movementHistory')] = <<playerLat', playerLng'>>]_vars
    /\ [][(/\ isAutoLocationEnabled
           /\ \/ lastOp'.op = "reset"
              \/ lastOp'.op = "tracking" /\ watchId' = NoWatch)
          => ~isAutoLocationEnabled']_vars

\* a direction button was clicked while tracking was on, with a cache active
\* and a snapshot in the store
C20_Witness ==
    /\ lastOp.op = "moveIgnored"
    /\ isAutoLocationEnabled
    /\ activeCaches # <<>>
    /\ cacheStates # <<>>

\* C21: the movement history is never empty and never holds two equal
\* consecutive points, after any sequence of manual moves, sensor reports
\* (repeated ones included) and resets.
C21_HistoryWellFormed ==
    /\ Len(movementHistory) >= 1
    /\ \A n \in 1..(Len(movementHistory) - 1) : movementHistory[n] # movementHistory[n + 1]

\* the sensor has reported the position the player was already at, after moves
C21_Witness ==
    /\ lastOp.op = "sensor"
    /\ lastOp.repeated
    /\ Len(movementHistory) >= 3

\* C22: in every state between events each active cache agrees with the
\* snapshot store: the entry of its tile, if there is one, has the count and the
\* stack of the live cache, and without an entry the live cache is in its
\* freshly initialized state.
C22_ActiveAgreesWithStore ==
    \A key \in DOMAIN activeCaches :
        Contents(coinArrays, activeCaches[key]) =
            IF HasSaved(cacheStates, key[1], key[2])
            THEN Contents(coinArrays, restoreCache(cacheStates, key[1], key[2]))
            ELSE [coinCount |-> luck(key[1], key[2], "initialValue"),
                  coins |-> SerialStack(key[1], key[2], luck(key[1], key[2], "initialValue"))]

\* one active cache has been collected from and deposited into, the other has
\* no entry in the store
C22_Witness ==
    /\ \E key \in DOMAIN activeCaches :
          /\ HasSaved(cacheStates, key[1], key[2])
          /\ \E n \in 1..Len(coinArrays[activeCaches[key].coins]) :
                coinArrays[activeCaches[key].coins][n].kind = "deposited"
    /\ \E key \in DOMAIN activeCaches : ~HasSaved(cacheStates, key[1], key[2])

\* the count of a tile: that of its live cache if it is active, else that of
\* its memento in the store, else its initial count
CurrentCount(active, states, key) ==
    IF key \in DOMAIN active THEN getCoinCount(active[key])
    ELSE IF HasSaved(states, key[1], key[2]) THEN restoreCache(states, key[1], key[2]).coinCount
    ELSE luck(key[1], key[2], "initialValue")

RECURSIVE TakenFrom(_, _, _)
\* the sum over the tiles of keys of (initial count - current count)
TakenFrom(active, states, keys) ==
    IF keys = {} THEN 0
    ELSE LET key == CHOOSE k \in keys : TRUE IN
         luck(key[1], key[2], "initialValue") - CurrentCount(active, states, key)
             + TakenFrom(active, states, keys \ {key})

\* the balance less what has been taken from the tiles (a tile outside
\* LuckyTiles never has a cache, so its count is its initial count)
Surplus(balance, active, states) ==
    balance - TakenFrom(active, states, LuckyTiles \cup DOMAIN active \cup DOMAIN states)

\* C23: no event other than reset creates or destroys tokens: the balance
\* equals the sum over the tiles of (initial count - current count) at the
\* start, and every collect, deposit and change of position leaves the
\* difference of the two as it is.
C23_Conservation ==
    /\ Surplus(playerCoins, activeCaches, cacheStates) = 0
    /\ [][lastOp'.op # "reset" =>
             Surplus(playerCoins', activeCaches', cacheStates')
                 = Surplus(playerCoins, activeCaches, cacheStates)]_vars

\* the player holds a coin while the tile it was taken from has been evicted
\* and admitted again
C23_Witness ==
    /\ lastOp.op = "sensor"
    /\ playerCoins > 0
    /\ \E key \in lastOp.admitted :
          /\ HasSaved(cacheStates, key[1], key[2])
          /\ getCoinCount(activeCaches[key]) < luck(key[1], key[2], "initialValue")
    /\ Surplus(playerCoins, activeCaches, cacheStates) = 0

\* C24: in every state between events isAutoLocationEnabled is true exactly
\* when watchId is not null, under any interleaving of clicks on the sensor
\* button, position callbacks, error callbacks, expiries of the cooldown timer
\* and resets; and while tracking is off no position callback moves the player.
C24_TrackingConsistent ==
    /\ [](isAutoLocationEnabled <=> watchId # NoWatch)
    /\ [][~isAutoLocationEnabled =>
             \/ lastOp'.op # "sensor"
             \/ <<playerLat', playerLng'>> = <<playerLat, playerLng>>]_vars

\* tracking is off and the button cooling down, after the sensor had taken the
\* player to a position no manual move reaches
C24_Witness ==
    /\ ~isAutoLocationEnabled
    /\ watchId = NoWatch
    /\ sensorDisabled
    /\ cooldownTimers > 0
    /\ ~InWalkingArea(playerLat, playerLng)

(***************************************************************************)
(* Claims about the identifiers of deposited coins, checked under          *)
(* DepositSpec.                                                            *)
(***************************************************************************)
\* C25: the coin identifiers in the stack of any one cache are pairwise
\* distinct at all times, for any sequence of collects and deposits.
C25_DistinctIds ==
    \A key \in DOMAIN activeCaches :
        LET stack == coinArrays[activeCaches[key].coins] IN
        \A m \in 1..Len(stack), n \in 1..Len(stack) : stack[m] = stack[n] => m = n

(***************************************************************************)
(* Claims about latLongToGrid, checked under GridSpec.                     *)
(***************************************************************************)
\* the tile indices around the origin
TileIndices == -MaxCoordinate..MaxCoordinate

=============================================================================
